---- MODULE Spec2Model ----
(***************************************************************************)
(* A model of github.com/cbrewster/slog-env: a log/slog handler that       *)
(* filters records by a default level and per-package override levels      *)
(* parsed from a filter text (normally the GO_LOG environment variable).   *)
(*                                                                         *)
(* Go strings are modelled as sequences of one-character strings, so that  *)
(* strings.Split, strings.Cut and slog.Level.UnmarshalText do real work.   *)
(***************************************************************************)
EXTENDS Integers, Sequences, FiniteSets, TLC

VARIABLES
    env,        \* the process environment: variable name -> [set, val]
    handlers,   \* the *Handler values created so far, in creation order
    messages,   \* the messages the inner sink has received, in order
    nlogged,    \* how many records have been passed to Handle so far
    last        \* the last call: its operation, arguments and results

vars == <<env, handlers, messages, nlogged, last>>

(***************************************************************************)
(* Bounds of the model.                                                    *)
(***************************************************************************)
\* the longest filter text, in comma-separated terms
MaxTerms == 2
\* the most handlers alive (the root one and the derived ones)
MaxHandlers == 2
\* the most records passed to Handle in one behaviour
MaxRecords == 2
\* the most options passed to NewHandler
MaxOpts == 2

(***************************************************************************)
(* log/slog levels.                                                        *)
(***************************************************************************)
LevelDebug == -4
LevelInfo == 0
LevelWarn == 4
LevelError == 8

\* the zero value of slog.Level, which a missing map entry reads as
ZeroLevel == 0

Levels == {LevelDebug, LevelInfo, LevelWarn, LevelError}

\* the error value nil
Nil == "nil"

(***************************************************************************)
(* The strings of the model.                                               *)
(***************************************************************************)
\* "debug"
StrDebug ==
    <<"d", "e", "b", "u", "g">>
\* "INFO"
StrInfoUpper ==
    <<"I", "N", "F", "O">>
\* "error"
StrError ==
    <<"e", "r", "r", "o", "r">>
\* ""
StrEmpty ==
    <<>>
\* "trace"
StrTrace ==
    <<"t", "r", "a", "c", "e">>
\* "INFO+4"
StrInfoPlus4 ==
    <<"I", "N", "F", "O", "+", "4">>
\* "debug+x"
StrDebugPlusX ==
    <<"d", "e", "b", "u", "g", "+", "x">>
\* "warn"
StrWarn ==
    <<"w", "a", "r", "n">>
\* "DEBUG"
NameDEBUG ==
    <<"D", "E", "B", "U", "G">>
\* "INFO"
NameINFO ==
    <<"I", "N", "F", "O">>
\* "WARN"
NameWARN ==
    <<"W", "A", "R", "N">>
\* "ERROR"
NameERROR ==
    <<"E", "R", "R", "O", "R">>
\* "mypackage"
ModMypackage ==
    <<"m", "y", "p", "a", "c", "k", "a", "g", "e">>
\* "testpackage"
ModTestpackage ==
    <<"t", "e", "s", "t", "p", "a", "c", "k", "a", "g", "e">>
\* "x/y.z"
ModSlashDot ==
    <<"x", "/", "y", ".", "z">>
\* "slog-env_test"
ModSlogEnvTest ==
    <<"s", "l", "o", "g", "-", "e", "n", "v", "_", "t", "e", "s", "t">>
\* "main.main"
FnMain ==
    <<"m", "a", "i", "n", ".", "m", "a", "i", "n">>
\* "github.com/cbrewster/slog-env_test.TestFilterPackage"
FnRootTest ==
    <<"g", "i", "t", "h", "u", "b", ".", "c", "o", "m", "/", "c", "b", "r", "e", "w", "s", "t", "e", "r", "/", "s", "l", "o", "g", "-", "e", "n", "v", "_", "t", "e", "s", "t", ".", "T", "e", "s", "t", "F", "i", "l", "t", "e", "r", "P", "a", "c", "k", "a", "g", "e">>
\* "github.com/cbrewster/slog-env/internal/testpackage.LogSomething"
FnTestpackage ==
    <<"g", "i", "t", "h", "u", "b", ".", "c", "o", "m", "/", "c", "b", "r", "e", "w", "s", "t", "e", "r", "/", "s", "l", "o", "g", "-", "e", "n", "v", "/", "i", "n", "t", "e", "r", "n", "a", "l", "/", "t", "e", "s", "t", "p", "a", "c", "k", "a", "g", "e", ".", "L", "o", "g", "S", "o", "m", "e", "t", "h", "i", "n", "g">>
\* "example.com/testpackage": dots before the last '/', none after it
FnNoDot ==
    <<"e", "x", "a", "m", "p", "l", "e", ".", "c", "o", "m", "/", "t", "e", "s", "t", "p", "a", "c", "k", "a", "g", "e">>
\* "mypackage.(*T).Run": no '/', several dots
FnMethod ==
    <<"m", "y", "p", "a", "c", "k", "a", "g", "e", ".", "(", "*", "T", ")", ".", "R", "u", "n">>
\* "example.com/testpackage2.Run": a package that "testpackage" is a prefix of
FnLonger ==
    <<"e", "x", "a", "m", "p", "l", "e", ".", "c", "o", "m", "/", "t", "e", "s", "t", "p", "a", "c", "k", "a", "g", "e", "2", ".", "R", "u", "n">>
\* "example.com/.init": the last segment starts with '.'
FnDotFirst ==
    <<"e", "x", "a", "m", "p", "l", "e", ".", "c", "o", "m", "/", ".", "i", "n", "i", "t">>

(***************************************************************************)
(* The Go library functions the code calls.                                *)
(***************************************************************************)
\* the first position at or after i of a character of chars; 0 when none
RECURSIVE IndexFrom(_, _, _)
IndexFrom(s, chars, i) ==
    IF i > Len(s) THEN 0
    ELSE IF s[i] \in chars THEN i
    ELSE IndexFrom(s, chars, i + 1)

\* strings.IndexAny(s, chars), counted from 1; 0 when absent
IndexAny(s, chars) == IndexFrom(s, chars, 1)

\* strings.Index(s, c) for a one-character c, counted from 1; 0 when absent
IndexOf(s, c) == IndexFrom(s, {c}, 1)

\* strings.Cut(s, sep) for a one-character sep
Cut(s, sep) ==
    LET i == IndexOf(s, sep)
    IN  IF i = 0
        THEN [before |-> s, after |-> <<>>, found |-> FALSE]
        ELSE [before |-> SubSeq(s, 1, i - 1),
              after  |-> SubSeq(s, i + 1, Len(s)),
              found  |-> TRUE]

\* strings.Split(s, sep) for a one-character sep: n separators give n+1 parts
RECURSIVE Split(_, _)
Split(s, sep) ==
    LET i == IndexOf(s, sep)
    IN  IF i = 0
        THEN <<s>>
        ELSE <<SubSeq(s, 1, i - 1)>> \o Split(SubSeq(s, i + 1, Len(s)), sep)

LowerLetters ==
    <<"a", "b", "c", "d", "e", "f", "g", "h", "i", "j", "k", "l", "m",
      "n", "o", "p", "q", "r", "s", "t", "u", "v", "w", "x", "y", "z">>

UpperLetters ==
    <<"A", "B", "C", "D", "E", "F", "G", "H", "I", "J", "K", "L", "M",
      "N", "O", "P", "Q", "R", "S", "T", "U", "V", "W", "X", "Y", "Z">>

\* strings.ToUpper on one character
UpperChar(c) ==
    IF \E i \in 1..26 : LowerLetters[i] = c
    THEN UpperLetters[CHOOSE i \in 1..26 : LowerLetters[i] = c]
    ELSE c

\* strings.ToUpper
ToUpper(s) == [i \in 1..Len(s) |-> UpperChar(s[i])]

Digits == <<"0", "1", "2", "3", "4", "5", "6", "7", "8", "9">>

IsDigit(c) == \E i \in 1..10 : Digits[i] = c

DigitValue(c) == (CHOOSE i \in 1..10 : Digits[i] = c) - 1

RECURSIVE DecimalValue(_)
DecimalValue(ds) ==
    IF ds = <<>> THEN 0
    ELSE 10 * DecimalValue(SubSeq(ds, 1, Len(ds) - 1)) + DigitValue(ds[Len(ds)])

\* strconv.Atoi: an optional sign, then one or more decimal digits
Atoi(s) ==
    LET signed == Len(s) > 0 /\ s[1] \in {"+", "-"}
        ds     == IF signed THEN SubSeq(s, 2, Len(s)) ELSE s
    IN  IF ds = <<>> \/ \E i \in 1..Len(ds) : ~IsDigit(ds[i])
        THEN [val |-> 0, ok |-> FALSE]
        ELSE [val |-> IF signed /\ s[1] = "-"
                      THEN 0 - DecimalValue(ds) ELSE DecimalValue(ds),
              ok  |-> TRUE]

\* slog.Level.UnmarshalText on a level holding l: the level afterwards and
\* whether the text decoded. A text that does not decode leaves l as it was.
UnmarshalText(l, text) ==
    LET i      == IndexAny(text, {"+", "-"})
        name   == IF i > 0 THEN SubSeq(text, 1, i - 1) ELSE text
        offset == IF i > 0 THEN Atoi(SubSeq(text, i, Len(text)))
                  ELSE [val |-> 0, ok |-> TRUE]
        upper  == ToUpper(name)
    IN  IF ~offset.ok THEN [level |-> l, ok |-> FALSE]
        ELSE IF upper = NameDEBUG THEN [level |-> LevelDebug + offset.val, ok |-> TRUE]
        ELSE IF upper = NameINFO  THEN [level |-> LevelInfo + offset.val, ok |-> TRUE]
        ELSE IF upper = NameWARN  THEN [level |-> LevelWarn + offset.val, ok |-> TRUE]
        ELSE IF upper = NameERROR THEN [level |-> LevelError + offset.val, ok |-> TRUE]
        ELSE [level |-> l, ok |-> FALSE]

(***************************************************************************)
(* A Go map[string]slog.Level: a function on its keys.                     *)
(***************************************************************************)
EmptyMap == <<>>

\* m[k] on the right of an assignment: the zero value when k is absent
MapGet(m, k) == IF k \in DOMAIN m THEN m[k] ELSE ZeroLevel

\* m[k] = v
MapPut(m, k, v) == [x \in (DOMAIN m) \cup {k} |-> IF x = k THEN v ELSE m[x]]

\* len(m)
MapLen(m) == Cardinality(DOMAIN m)

(***************************************************************************)
(* parsePackage and parseFilter.                                           *)
(***************************************************************************)
\* parsePackage that cuts the whole name, not its last segment
parsePackageWholeName(function) ==
    LET c == Cut(function, ".")
    IN  [pkg |-> c.before, ok |-> c.found]

\* parsePackage(function): the package of a formatted function name
parsePackage(function) ==
    LET parts == Split(function, "/")
        c     == Cut(parts[Len(parts)], ".")
    IN  [pkg |-> c.before, ok |-> c.found]

\* the pass that keeps the first level given for a package
parseFilterTermFirstWins(filter, defaultLevel, perPackageLevel) ==
    LET c == Cut(filter, "=")
    IN  IF ~c.found
        THEN [defaultLevel    |-> UnmarshalText(defaultLevel, c.before).level,
              perPackageLevel |-> perPackageLevel]
        ELSE IF c.before \in DOMAIN perPackageLevel
        THEN [defaultLevel |-> defaultLevel, perPackageLevel |-> perPackageLevel]
        ELSE [defaultLevel    |-> defaultLevel,
              perPackageLevel |->
                  MapPut(perPackageLevel, c.before,
                         UnmarshalText(ZeroLevel, c.after).level)]

\* the pass that decodes into a fresh level, not the package's present one
parseFilterTermFreshLevel(filter, defaultLevel, perPackageLevel) ==
    LET c == Cut(filter, "=")
    IN  IF ~c.found
        THEN [defaultLevel    |-> UnmarshalText(defaultLevel, c.before).level,
              perPackageLevel |-> perPackageLevel]
        ELSE [defaultLevel    |-> defaultLevel,
              perPackageLevel |->
                  MapPut(perPackageLevel, c.before,
                         UnmarshalText(ZeroLevel, c.after).level)]

\* the pass that starts a package's level from the default level
parseFilterTermFromDefault(filter, defaultLevel, perPackageLevel) ==
    LET c == Cut(filter, "=")
    IN  IF ~c.found
        THEN [defaultLevel    |-> UnmarshalText(defaultLevel, c.before).level,
              perPackageLevel |-> perPackageLevel]
        ELSE LET packageLevel == IF c.before \in DOMAIN perPackageLevel
                                 THEN perPackageLevel[c.before] ELSE defaultLevel
             IN  [defaultLevel    |-> defaultLevel,
                  perPackageLevel |->
                      MapPut(perPackageLevel, c.before,
                             UnmarshalText(packageLevel, c.after).level)]

\* one pass of parseFilter's loop, on the term `filter`
parseFilterTerm(filter, defaultLevel, perPackageLevel) ==
    LET c == Cut(filter, "=")
    IN  IF ~c.found
        THEN [defaultLevel    |-> UnmarshalText(defaultLevel, c.before).level,
              perPackageLevel |-> perPackageLevel]
        ELSE LET packageLevel == MapGet(perPackageLevel, c.before)
             IN  [defaultLevel    |-> defaultLevel,
                  perPackageLevel |->
                      MapPut(perPackageLevel, c.before,
                             UnmarshalText(packageLevel, c.after).level)]

RECURSIVE parseFilterLoop(_, _, _, _)
parseFilterLoop(filters, i, defaultLevel, perPackageLevel) ==
    IF i > Len(filters)
    THEN [defaultLevel |-> defaultLevel, perPackageLevel |-> perPackageLevel]
    ELSE LET r == parseFilterTerm(filters[i], defaultLevel, perPackageLevel)
         IN  parseFilterLoop(filters, i + 1, r.defaultLevel, r.perPackageLevel)

\* parseFilter(defaultLevel, filter)
parseFilter(defaultLevel, filter) ==
    parseFilterLoop(Split(filter, ","), 1, defaultLevel, EmptyMap)

(***************************************************************************)
(* The configuration and its options.                                      *)
(***************************************************************************)
\* the names of the environment variables of the model
EnvNames == {"GO_LOG", "MY_LOG"}

Unset == [set |-> FALSE, val |-> <<>>]

SetTo(text) == [set |-> TRUE, val |-> text]

\* os.Getenv(name): the value, which is empty when the variable is unset
Getenv(e, name) == IF e[name].set THEN e[name].val ELSE <<>>

WithDefaultLevel(level) == [opt |-> "WithDefaultLevel", level |-> level]

WithEnvVarName(name) == [opt |-> "WithEnvVarName", name |-> name]

WithDefaultFilter(filter) == [opt |-> "WithDefaultFilter", filter |-> filter]

\* opt(&cfg)
ApplyOpt(cfg, o) ==
    IF o.opt = "WithDefaultLevel" THEN [cfg EXCEPT !.defaultLevel = o.level]
    ELSE IF o.opt = "WithEnvVarName" THEN [cfg EXCEPT !.envVarName = o.name]
    ELSE [cfg EXCEPT !.defaultFilter = o.filter]

RECURSIVE ApplyOpts(_, _)
ApplyOpts(cfg, opts) ==
    IF opts = <<>> THEN cfg
    ELSE ApplyOpts(ApplyOpt(cfg, Head(opts)), Tail(opts))

\* the config NewHandler starts from
DefaultConfig ==
    [envVarName |-> "GO_LOG", defaultLevel |-> LevelInfo, defaultFilter |-> <<>>]

\* the filter text NewHandler parses
ChooseFilter(cfg, e) ==
    LET envFilter == Getenv(e, cfg.envVarName)
    IN  IF envFilter # <<>> THEN envFilter ELSE cfg.defaultFilter

\* NewHandler(inner, opts...), in the environment e
NewHandler(inner, opts, e) ==
    LET cfg    == ApplyOpts(DefaultConfig, opts)
        parsed == parseFilter(cfg.defaultLevel, ChooseFilter(cfg, e))
    IN  [inner           |-> inner,
         defaultLevel    |-> parsed.defaultLevel,
         perPackageLevel |-> parsed.perPackageLevel]

(***************************************************************************)
(* The inner sink, an slog.Handler the package does not own. A sink is     *)
(* named by how it was derived from the root one; all sinks write to the   *)
(* same output, `messages`.                                                *)
(***************************************************************************)
RootSink == <<>>

InnerWithAttrs(sink, attrs) == Append(sink, <<"WithAttrs", attrs>>)

InnerWithGroup(sink, name) == Append(sink, <<"WithGroup", name>>)

\* what inner.Handle may return
InnerResults == {Nil, "sink error"}

(***************************************************************************)
(* The methods of *Handler.                                                *)
(***************************************************************************)
\* Enabled with the comparison off by one
EnabledAbove(h, level) ==
    IF MapLen(h.perPackageLevel) = 0
    THEN level > h.defaultLevel
    ELSE TRUE

\* h.Enabled(ctx, level)
Enabled(h, level) ==
    IF MapLen(h.perPackageLevel) = 0
    THEN level >= h.defaultLevel
    ELSE TRUE

\* s starts with p
HasPrefix(s, p) == Len(p) <= Len(s) /\ SubSeq(s, 1, Len(p)) = p

\* getLevelForRecord that takes a key the package name starts with
getLevelForRecordByPrefix(h, record) ==
    IF MapLen(h.perPackageLevel) = 0 THEN h.defaultLevel
    ELSE LET p == parsePackage(record.fn)
         IN  IF ~p.ok THEN h.defaultLevel
             ELSE IF \A k \in DOMAIN h.perPackageLevel : ~HasPrefix(p.pkg, k)
             THEN h.defaultLevel
             ELSE h.perPackageLevel[CHOOSE k \in DOMAIN h.perPackageLevel :
                                        HasPrefix(p.pkg, k)]

\* h.getLevelForRecord(record); record.fn is the function name the runtime
\* gives for record.PC, empty when it has none
getLevelForRecord(h, record) ==
    IF MapLen(h.perPackageLevel) = 0 THEN h.defaultLevel
    ELSE LET p == parsePackage(record.fn)
         IN  IF ~p.ok THEN h.defaultLevel
             ELSE IF p.pkg \notin DOMAIN h.perPackageLevel THEN h.defaultLevel
             ELSE h.perPackageLevel[p.pkg]

\* Handle with the comparison off by one: a record at the level is dropped
HandleDropsEqual(h, record, innerResult) ==
    LET level == getLevelForRecord(h, record)
    IN  IF record.level <= level
        THEN [level |-> level, innerCalls |-> <<>>, ret |-> Nil]
        ELSE [level      |-> level,
              innerCalls |-> <<[method |-> "Handle", sink |-> h.inner,
                                arg |-> record]>>,
              ret        |-> innerResult]

\* Handle that drops the inner sink's error
HandleSwallowsError(h, record, innerResult) ==
    LET level == getLevelForRecord(h, record)
    IN  IF record.level < level
        THEN [level |-> level, innerCalls |-> <<>>, ret |-> Nil]
        ELSE [level      |-> level,
              innerCalls |-> <<[method |-> "Handle", sink |-> h.inner,
                                arg |-> record]>>,
              ret        |-> Nil]

\* h.Handle(ctx, record), where the inner sink would return innerResult: the
\* level the record was held against, the calls made on the inner sink, and
\* what Handle returns
Handle(h, record, innerResult) ==
    LET level == getLevelForRecord(h, record)
    IN  IF record.level < level
        THEN [level |-> level, innerCalls |-> <<>>, ret |-> Nil]
        ELSE [level      |-> level,
              innerCalls |-> <<[method |-> "Handle", sink |-> h.inner,
                                arg |-> record]>>,
              ret        |-> innerResult]

\* h.WithAttrs(attrs): the new handler
WithAttrs(h, attrs) ==
    [inner           |-> InnerWithAttrs(h.inner, attrs),
     defaultLevel    |-> h.defaultLevel,
     perPackageLevel |-> h.perPackageLevel]

\* WithGroup that leaves defaultLevel out of the new handler
WithGroupZeroLevel(h, name) ==
    [inner           |-> InnerWithGroup(h.inner, name),
     defaultLevel    |-> ZeroLevel,
     perPackageLevel |-> h.perPackageLevel]

\* h.WithGroup(name): the new handler
WithGroup(h, name) ==
    [inner           |-> InnerWithGroup(h.inner, name),
     defaultLevel    |-> h.defaultLevel,
     perPackageLevel |-> h.perPackageLevel]

\* the messages of the records that `calls` hands to inner.Handle
RECURSIVE Handled(_)
Handled(calls) ==
    IF calls = <<>> THEN <<>>
    ELSE (IF Head(calls).method = "Handle" THEN <<Head(calls).arg.msg>> ELSE <<>>)
         \o Handled(Tail(calls))

(***************************************************************************)
(* The inputs of the model.                                                *)
(***************************************************************************)
\* the function names of the callers
FunctionNames ==
    {StrEmpty, FnMain, FnRootTest, FnTestpackage, FnNoDot, FnMethod,
     FnLonger, FnDotFirst}

\* the function names looked up in SpecParse
LookupNames == {FnTestpackage, FnLonger, FnMethod, FnDotFirst}

\* the level texts of the filters
LevelTexts ==
    {StrDebug, StrError, StrInfoPlus4, StrEmpty, StrTrace, StrDebugPlusX}

\* the package names of the filters
ModuleTexts == {ModMypackage, ModTestpackage, ModSlashDot, StrEmpty}

\* module=level
ModuleTerm(m, l) == m \o <<"=">> \o l

\* the terms of the filters: a bare level text, or module=level
TermTexts == LevelTexts \cup {ModuleTerm(m, l) : m \in ModuleTexts, l \in LevelTexts}

\* the terms, joined by commas
RECURSIVE JoinTerms(_)
JoinTerms(terms) ==
    IF Len(terms) = 1 THEN terms[1]
    ELSE terms[1] \o <<",">> \o JoinTerms(Tail(terms))

\* the filter texts of 1..MaxTerms terms
FilterTexts ==
    UNION {{JoinTerms(ts) : ts \in [1..n -> TermTexts]} : n \in 1..MaxTerms}

\* the default levels handed to parseFilter
DefaultLevels == {LevelInfo, LevelError}

\* the filter texts the handlers of Spec are built from
HandlerFilters ==
    {StrDebug,
     StrError,
     ModuleTerm(ModTestpackage, StrError),
     ModuleTerm(ModTestpackage, StrEmpty),
     JoinTerms(<<StrDebug, ModuleTerm(ModTestpackage, StrError)>>),
     JoinTerms(<<ModuleTerm(ModSlogEnvTest, StrDebug),
                 ModuleTerm(ModTestpackage, StrError)>>),
     JoinTerms(<<StrError, ModuleTerm(ModTestpackage, StrDebug)>>),
     JoinTerms(<<StrInfoUpper, ModuleTerm(ModMypackage, StrDebug)>>),
     JoinTerms(<<StrError, ModuleTerm(ModTestpackage, StrEmpty)>>),
     ModuleTerm(ModSlashDot, StrDebug),
     JoinTerms(<<StrWarn, ModuleTerm(StrEmpty, StrDebug)>>)}

\* the options the handlers of Spec are built with
HandlerOpts == {<<>>, <<WithDefaultLevel(LevelDebug)>>}

\* the environments of Spec: GO_LOG unset, or set to a filter
HandlerEnvs ==
    {[n \in EnvNames |-> IF n = "GO_LOG" THEN v ELSE Unset] :
        v \in {Unset} \cup {SetTo(f) : f \in HandlerFilters}}

RecordLevels == Levels

AttrsArgs == {"attrs"}

GroupArgs == {"group"}

(***************************************************************************)
(* Spec: the life of a handler after NewHandler.                           *)
(***************************************************************************)
Init ==
    /\ env \in HandlerEnvs
    /\ \E opts \in HandlerOpts : handlers = <<NewHandler(RootSink, opts, env)>>
    /\ messages = <<>>
    /\ nlogged = 0
    /\ last = [op |-> "none"]

\* a call of h.Enabled by the caller
EnabledCall ==
    /\ last.op = "none"
    /\ \E i \in 1..Len(handlers), level \in RecordLevels :
        last' = [op |-> "Enabled", h |-> i, level |-> level,
                 ret |-> Enabled(handlers[i], level)]
    /\ UNCHANGED <<env, handlers, messages, nlogged>>

\* a call of h.Handle by the caller, with the next record
HandleCall ==
    /\ last.op = "none"
    /\ nlogged < MaxRecords
    /\ \E i \in 1..Len(handlers), level \in RecordLevels, fn \in FunctionNames,
          innerResult \in InnerResults :
        \E record \in {[level |-> level, fn |-> fn, msg |-> nlogged + 1]} :
        \E out \in {Handle(handlers[i], record, innerResult)} :
            /\ messages' = messages \o Handled(out.innerCalls)
            /\ nlogged' = nlogged + 1
            /\ last' = [op |-> "Handle", h |-> i, record |-> record,
                        innerResult |-> innerResult, level |-> out.level,
                        innerCalls |-> out.innerCalls, ret |-> out.ret]
    /\ UNCHANGED <<env, handlers>>

\* a call of h.WithAttrs by the caller
WithAttrsCall ==
    /\ last.op = "none"
    /\ Len(handlers) < MaxHandlers
    /\ \E i \in 1..Len(handlers), attrs \in AttrsArgs :
        /\ handlers' = Append(handlers, WithAttrs(handlers[i], attrs))
        /\ last' = [op |-> "WithAttrs", h |-> i, arg |-> attrs,
                    new |-> Len(handlers) + 1]
    /\ UNCHANGED <<env, messages, nlogged>>

\* a call of h.WithGroup by the caller
WithGroupCall ==
    /\ last.op = "none"
    /\ Len(handlers) < MaxHandlers
    /\ \E i \in 1..Len(handlers), name \in GroupArgs :
        /\ handlers' = Append(handlers, WithGroup(handlers[i], name))
        /\ last' = [op |-> "WithGroup", h |-> i, arg |-> name,
                    new |-> Len(handlers) + 1]
    /\ UNCHANGED <<env, messages, nlogged>>

\* the caller takes the result: its calls are made one after the other
Return ==
    /\ last.op # "none"
    /\ last' = [op |-> "none"]
    /\ UNCHANGED <<env, handlers, messages, nlogged>>

Next ==
    \/ EnabledCall
    \/ HandleCall
    \/ WithAttrsCall
    \/ WithGroupCall
    \/ Return

Spec == Init /\ [][Next]_vars

(***************************************************************************)
(* SpecNew: NewHandler, over environments and options.                     *)
(***************************************************************************)
\* the values of an environment variable in SpecNew
EnvValues ==
    {Unset, SetTo(StrEmpty), SetTo(StrDebug),
     SetTo(JoinTerms(<<StrError, ModuleTerm(ModTestpackage, StrDebug)>>))}

\* the options of SpecNew
Options ==
    {WithDefaultLevel(LevelDebug), WithDefaultLevel(LevelError),
     WithEnvVarName("MY_LOG"), WithEnvVarName("GO_LOG"),
     WithDefaultFilter(StrWarn),
     WithDefaultFilter(JoinTerms(<<StrInfoUpper, ModuleTerm(ModMypackage, StrDebug)>>))}

OptSeqs == UNION {[1..n -> Options] : n \in 0..MaxOpts}

InitNew ==
    /\ env \in [EnvNames -> EnvValues]
    /\ handlers = <<>>
    /\ messages = <<>>
    /\ nlogged = 0
    /\ last = [op |-> "none"]

NewHandlerCall ==
    /\ handlers = <<>>
    /\ \E opts \in OptSeqs :
        /\ handlers' = <<NewHandler(RootSink, opts, env)>>
        /\ last' = [op |-> "NewHandler", opts |-> opts, new |-> 1]
    /\ UNCHANGED <<env, messages, nlogged>>

NextNew == NewHandlerCall

SpecNew == InitNew /\ [][NextNew]_vars

(***************************************************************************)
(* SpecParse: parseFilter as a function of its arguments, and the lookup   *)
(* of a caller in what it returns.                                         *)
(***************************************************************************)
InitParse ==
    /\ env = [n \in EnvNames |-> Unset]
    /\ handlers = <<>>
    /\ messages = <<>>
    /\ nlogged = 0
    /\ \E d \in DefaultLevels, f \in FilterTexts :
        last = [op |-> "input", defaultLevel |-> d, filter |-> f]

ParseFilterCall ==
    /\ last.op = "input"
    /\ LET out == parseFilter(last.defaultLevel, last.filter)
       IN  last' = [op |-> "parseFilter", defaultLevel |-> last.defaultLevel,
                    filter |-> last.filter, ret |-> out]
    /\ UNCHANGED <<env, handlers, messages, nlogged>>

LookupCall ==
    /\ last.op = "parseFilter"
    /\ \E fn \in LookupNames :
        LET h == [inner |-> RootSink, defaultLevel |-> last.ret.defaultLevel,
                  perPackageLevel |-> last.ret.perPackageLevel]
        IN  last' = [op |-> "getLevelForRecord", defaultLevel |-> last.defaultLevel,
                     filter |-> last.filter, ret |-> last.ret, fn |-> fn,
                     level |-> getLevelForRecord(h, [level |-> LevelInfo, fn |-> fn,
                                                     msg |-> 0])]
    /\ UNCHANGED <<env, handlers, messages, nlogged>>

NextParse == ParseFilterCall \/ LookupCall

SpecParse == InitParse /\ [][NextParse]_vars

(***************************************************************************)
(* What the properties are stated with.                                    *)
(***************************************************************************)
\* the handler of the last call
LastHandler == handlers[last.h]

\* after a Handle call: the inner sink received the record
Forwarded == messages # <<>> /\ messages[Len(messages)] = last.record.msg

\* where the last '/' of a function name is; 0 when it has none
LastSlash(fn) ==
    CHOOSE k \in 0..Len(fn) :
        /\ k = 0 \/ fn[k] = "/"
        /\ \A j \in (k + 1)..Len(fn) : fn[j] # "/"

\* the segment of a function name after its last '/'
SegmentOf(fn) == SubSeq(fn, LastSlash(fn) + 1, Len(fn))

\* the caller's function name resolves to a module
HasModule(fn) == \E i \in 1..Len(SegmentOf(fn)) : SegmentOf(fn)[i] = "."

\* the module a function name resolves to: its segment before the first '.'
ModuleOf(fn) ==
    LET seg == SegmentOf(fn)
        dot == CHOOSE i \in 1..Len(seg) :
                   seg[i] = "." /\ \A j \in 1..(i - 1) : seg[j] # "."
    IN  SubSeq(seg, 1, dot - 1)

\* the level a record of caller fn is held against by a handler
EffectiveLevel(h, fn) ==
    IF /\ DOMAIN h.perPackageLevel # {}
       /\ HasModule(fn)
       /\ ModuleOf(fn) \in DOMAIN h.perPackageLevel
    THEN h.perPackageLevel[ModuleOf(fn)]
    ELSE h.defaultLevel

\* two handlers forward the same records and drop the same records
SameDecisions(h1, h2) ==
    \A level \in RecordLevels, fn \in FunctionNames :
        (Handle(h1, [level |-> level, fn |-> fn, msg |-> 0], Nil).innerCalls = <<>>)
        <=> (Handle(h2, [level |-> level, fn |-> fn, msg |-> 0], Nil).innerCalls = <<>>)

\* "error,testpackage=debug"
FilterErrorTestpackageDebug ==
    JoinTerms(<<StrError, ModuleTerm(ModTestpackage, StrDebug)>>)

\* "slog-env_test=debug,testpackage=error"
FilterRootDebugTestpackageError ==
    JoinTerms(<<ModuleTerm(ModSlogEnvTest, StrDebug),
                ModuleTerm(ModTestpackage, StrError)>>)

\* the filters of Spec whose only term for testpackage is "testpackage="
EmptyLevelFilters ==
    {ModuleTerm(ModTestpackage, StrEmpty),
     JoinTerms(<<StrError, ModuleTerm(ModTestpackage, StrEmpty)>>)}

(***************************************************************************)
(* C1. Handle forwards a record to the inner sink if and only if its level *)
(* is at least the effective level: the override of the caller's module    *)
(* when there are overrides, the caller resolves to a module and the       *)
(* module is a key, and the default level otherwise. With the filter       *)
(* "error,testpackage=debug" records of testpackage pass from debug up and *)
(* all others from error up. The inner sink receives the forwarded records *)
(* in the order they were logged.                                          *)
(***************************************************************************)
C1_HandleForwardsFromEffectiveLevel ==
    /\ last.op = "Handle" =>
        /\ Forwarded <=>
               last.record.level >= EffectiveLevel(LastHandler, last.record.fn)
        /\ env["GO_LOG"] = SetTo(FilterErrorTestpackageDebug) =>
               IF HasModule(last.record.fn) /\ ModuleOf(last.record.fn) = ModTestpackage
               THEN Forwarded <=> last.record.level >= LevelDebug
               ELSE Forwarded <=> last.record.level >= LevelError
    /\ \A i, j \in 1..Len(messages) : i < j => messages[i] < messages[j]

\* a debug record of testpackage is forwarded under "error,testpackage=debug",
\* after an earlier record was
C1_Witness ==
    /\ last.op = "Handle"
    /\ env["GO_LOG"] = SetTo(FilterErrorTestpackageDebug)
    /\ last.record.fn = FnTestpackage
    /\ last.record.level = LevelDebug
    /\ Forwarded
    /\ Len(messages) = 2

(***************************************************************************)
(* C4. Enabled is a sound gate for Handle: when Enabled(L) is false, Handle *)
(* drops every record at level L whatever its caller. Without overrides    *)
(* the gate is exact: Enabled(L) is true exactly when Handle forwards a    *)
(* record at level L, both being L >= defaultLevel. With overrides Enabled *)
(* is true for every level.                                                *)
(***************************************************************************)
C4_EnabledIsSoundGate ==
    /\ last.op = "Enabled" =>
        /\ ~last.ret =>
               \A fn \in FunctionNames, r \in InnerResults :
                   Handle(LastHandler,
                          [level |-> last.level, fn |-> fn, msg |-> 0],
                          r).innerCalls = <<>>
        /\ DOMAIN LastHandler.perPackageLevel = {} =>
               (last.ret <=> last.level >= LastHandler.defaultLevel)
        /\ DOMAIN LastHandler.perPackageLevel # {} => last.ret
    /\ last.op = "Handle" =>
        /\ Forwarded => Enabled(LastHandler, last.record.level)
        /\ DOMAIN LastHandler.perPackageLevel = {} =>
               /\ Forwarded <=> Enabled(LastHandler, last.record.level)
               /\ Forwarded <=> last.record.level >= LastHandler.defaultLevel

\* Enabled answered false
C4_Witness ==
    /\ last.op = "Enabled"
    /\ ~last.ret
    /\ last.level = LevelInfo

(***************************************************************************)
(* C5. No call changes the defaultLevel or the overrides of a handler:     *)
(* every handler keeps those fixed at construction. WithAttrs and          *)
(* WithGroup return a new handler around inner.WithAttrs(attrs) or         *)
(* inner.WithGroup(name) and leave the receiver as it was, so a derived    *)
(* handler decides every record as its parent does.                        *)
(***************************************************************************)
C5_LevelsAreFixedAtConstruction ==
    [][/\ \A i \in 1..Len(handlers) : handlers'[i] = handlers[i]
       /\ \A i \in 1..Len(handlers') :
              /\ handlers'[i].defaultLevel = handlers[1].defaultLevel
              /\ handlers'[i].perPackageLevel = handlers[1].perPackageLevel
       /\ last'.op = "WithAttrs" =>
              /\ Len(handlers') = Len(handlers) + 1
              /\ handlers'[last'.new].inner =
                     InnerWithAttrs(handlers[last'.h].inner, last'.arg)
              /\ SameDecisions(handlers'[last'.new], handlers[last'.h])
       /\ last'.op = "WithGroup" =>
              /\ Len(handlers') = Len(handlers) + 1
              /\ handlers'[last'.new].inner =
                     InnerWithGroup(handlers[last'.h].inner, last'.arg)
              /\ SameDecisions(handlers'[last'.new], handlers[last'.h])
       /\ last'.op \notin {"WithAttrs", "WithGroup"} => handlers' = handlers]_vars

\* a handler derived by WithGroup, with an override and a default level that
\* is not the zero level, has handled a record
C5_Witness ==
    /\ Len(handlers) = 2
    /\ handlers[2].inner = InnerWithGroup(RootSink, "group")
    /\ handlers[2].defaultLevel = LevelError
    /\ DOMAIN handlers[2].perPackageLevel # {}
    /\ last.op = "Handle"
    /\ last.h = 2
    /\ Forwarded

(***************************************************************************)
(* C6. Handle ends in one of two ways. A record that passes the level      *)
(* check goes to inner.Handle exactly once, unchanged, and Handle returns  *)
(* what inner.Handle returns, without asking the inner sink whether it is  *)
(* enabled. A dropped record makes no call on the inner sink, and Handle   *)
(* returns no error.                                                       *)
(***************************************************************************)
C6_HandleForwardsOnceOrDrops ==
    last.op = "Handle" =>
        IF last.record.level >= EffectiveLevel(LastHandler, last.record.fn)
        THEN /\ last.innerCalls = <<[method |-> "Handle",
                                     sink   |-> LastHandler.inner,
                                     arg    |-> last.record]>>
             /\ last.ret = last.innerResult
             /\ Forwarded
        ELSE /\ last.innerCalls = <<>>
             /\ last.ret = Nil
             /\ \A i \in 1..Len(messages) : messages[i] # last.record.msg

\* Handle returned the inner sink's error
C6_Witness ==
    /\ last.op = "Handle"
    /\ last.innerResult = "sink error"
    /\ last.ret = "sink error"
    /\ Len(last.innerCalls) = 1

(***************************************************************************)
(* C9 as stated. The term "m=" for a module without an earlier override    *)
(* leaves overrides[m] at the lowest level, so that every record of m is   *)
(* forwarded.                                                              *)
(***************************************************************************)
C9_EmptyLevelForwardsEveryRecord ==
    (/\ last.op = "Handle"
     /\ env["GO_LOG"].set
     /\ env["GO_LOG"].val \in EmptyLevelFilters
     /\ last.record.fn = FnTestpackage)
    => /\ ModTestpackage \in DOMAIN LastHandler.perPackageLevel
       /\ \A level \in RecordLevels :
              LastHandler.perPackageLevel[ModTestpackage] <= level
       /\ Forwarded

(***************************************************************************)
(* C9 as amended. The term "m=" for a module without an earlier override   *)
(* is accepted and leaves overrides[m] present at the zero value of the    *)
(* level, which is Info and not the lowest level: a record of m is         *)
(* forwarded exactly when its level is Info or above, whatever the default *)
(* level is.                                                               *)
(***************************************************************************)
C9_EmptyLevelOverrideIsInfo ==
    (/\ env["GO_LOG"].set
     /\ env["GO_LOG"].val \in EmptyLevelFilters)
    => /\ \A i \in 1..Len(handlers) :
              /\ ModTestpackage \in DOMAIN handlers[i].perPackageLevel
              /\ handlers[i].perPackageLevel[ModTestpackage] = LevelInfo
       /\ (last.op = "Handle" /\ last.record.fn = FnTestpackage) =>
              /\ last.ret \in {Nil, last.innerResult}
              /\ Forwarded <=> last.record.level >= LevelInfo

\* a debug record of testpackage is dropped under "error,testpackage="
C9_Witness ==
    /\ last.op = "Handle"
    /\ env["GO_LOG"] = SetTo(JoinTerms(<<StrError, ModuleTerm(ModTestpackage, StrEmpty)>>))
    /\ last.record.fn = FnTestpackage
    /\ last.record.level = LevelDebug
    /\ ~Forwarded

(***************************************************************************)
(* C10. The module of a record is found from its caller's function name:   *)
(* of the segment after the last '/', the part before the first '.'        *)
(* ("github.com/cbrewster/slog-env_test.TestFilterPackage" gives            *)
(* "slog-env_test"; a dot before the last '/' does not count). When that   *)
(* segment has no '.', or the function name is empty, the record is held   *)
(* against the default level. The call never fails of itself.              *)
(***************************************************************************)
C10_ModuleIsSegmentBeforeFirstDot ==
    last.op = "Handle" =>
        /\ last.level = EffectiveLevel(LastHandler, last.record.fn)
        /\ ~HasModule(last.record.fn) => last.level = LastHandler.defaultLevel
        /\ last.record.fn \in {StrEmpty, FnNoDot} =>
               last.level = LastHandler.defaultLevel
        /\ (/\ env["GO_LOG"] = SetTo(FilterRootDebugTestpackageError)
            /\ last.record.fn = FnRootTest) => last.level = LevelDebug
        /\ last.ret # Nil => (last.ret = last.innerResult /\ Forwarded)

\* the record of slog-env_test.TestFilterPackage is held against the override
\* of slog-env_test
C10_Witness ==
    /\ last.op = "Handle"
    /\ env["GO_LOG"] = SetTo(FilterRootDebugTestpackageError)
    /\ last.record.fn = FnRootTest
    /\ last.level = LevelDebug
    /\ LastHandler.defaultLevel = LevelInfo


(***************************************************************************)
(* What the properties of parseFilter are stated with.                     *)
(***************************************************************************)
\* the terms of a filter text
TermsOf(filter) == Split(filter, ",")

\* a term without '=': a bare level
IsBare(term) == \A i \in 1..Len(term) : term[i] # "="

\* the module of a module term: the text before its first '='
TermModule(term) == Cut(term, "=").before

\* the level text of a term
TermLevelText(term) == IF IsBare(term) THEN term ELSE Cut(term, "=").after

\* the level text of a term decodes to a level
Decodes(term) == UnmarshalText(ZeroLevel, TermLevelText(term)).ok

\* the level a term's text decodes to
TermLevel(term) == UnmarshalText(ZeroLevel, TermLevelText(term)).level

\* the largest number of a non-empty set of numbers
Largest(S) == CHOOSE i \in S : \A j \in S : j <= i

\* the terms with terms i and i+1 exchanged
Exchanged(terms, i) ==
    [k \in 1..Len(terms) |->
        IF k = i THEN terms[i + 1] ELSE IF k = i + 1 THEN terms[i] ELSE terms[k]]

\* the terms without term i
Without(terms, i) ==
    [k \in 1..(Len(terms) - 1) |-> IF k < i THEN terms[k] ELSE terms[k + 1]]

\* two terms that set different things: a default and a module, or two modules
SetDifferentThings(t1, t2) ==
    \/ IsBare(t1) # IsBare(t2)
    \/ ~IsBare(t1) /\ ~IsBare(t2) /\ TermModule(t1) # TermModule(t2)

\* what parseFilter returns for the filter without term i
ParsedWithout(defaultLevel, terms, i) ==
    IF Len(terms) = 1
    THEN [defaultLevel |-> defaultLevel, perPackageLevel |-> EmptyMap]
    ELSE parseFilter(defaultLevel, JoinTerms(Without(terms, i)))

(***************************************************************************)
(* C2. parseFilter lets later terms win over earlier ones, for the default *)
(* level and for each module on its own: the default level is that of the  *)
(* last bare term that decodes (the given default when there is none), and *)
(* overrides[m] is the level of the last term of m that decodes. Exchanging *)
(* a bare term with a module term, or the terms of two modules, changes    *)
(* nothing: "debug,mypackage=error" and "mypackage=error,debug" both give  *)
(* default debug and mypackage at error.                                   *)
(***************************************************************************)
C2_LaterTermsTakePrecedence ==
    last.op = "parseFilter" =>
        LET terms  == TermsOf(last.filter)
            bare   == {i \in 1..Len(terms) : IsBare(terms[i]) /\ Decodes(terms[i])}
            of(m)  == {i \in 1..Len(terms) :
                          ~IsBare(terms[i]) /\ TermModule(terms[i]) = m
                          /\ Decodes(terms[i])}
        IN  /\ last.ret.defaultLevel =
                   IF bare = {} THEN last.defaultLevel
                   ELSE TermLevel(terms[Largest(bare)])
            /\ \A m \in {TermModule(terms[i]) : i \in 1..Len(terms)} :
                   of(m) # {} =>
                       /\ m \in DOMAIN last.ret.perPackageLevel
                       /\ last.ret.perPackageLevel[m] = TermLevel(terms[Largest(of(m))])
            /\ \A i \in 1..(Len(terms) - 1) :
                   SetDifferentThings(terms[i], terms[i + 1]) =>
                       parseFilter(last.defaultLevel, JoinTerms(Exchanged(terms, i)))
                           = last.ret
            /\ last.filter \in
                   {JoinTerms(<<StrDebug, ModuleTerm(ModMypackage, StrError)>>),
                    JoinTerms(<<ModuleTerm(ModMypackage, StrError), StrDebug>>)} =>
                   /\ last.ret.defaultLevel = LevelDebug
                   /\ DOMAIN last.ret.perPackageLevel = {ModMypackage}
                   /\ last.ret.perPackageLevel[ModMypackage] = LevelError

\* "mypackage=error,mypackage=debug" gives mypackage at debug
C2_Witness ==
    /\ last.op = "parseFilter"
    /\ last.filter = JoinTerms(<<ModuleTerm(ModMypackage, StrError),
                                 ModuleTerm(ModMypackage, StrDebug)>>)
    /\ last.ret.perPackageLevel[ModMypackage] = LevelDebug

(***************************************************************************)
(* C7 as stated. Every key of the overrides parseFilter returns is a bare  *)
(* module name, with no '/' and no '.', and a module is looked up by exact *)
(* match only.                                                             *)
(***************************************************************************)
C7_KeysAreBareModuleNames ==
    /\ last.op \in {"parseFilter", "getLevelForRecord"} =>
           \A k \in DOMAIN last.ret.perPackageLevel :
               \A i \in 1..Len(k) : k[i] \notin {"/", "."}
    /\ last.op = "getLevelForRecord" =>
           last.level = EffectiveLevel(last.ret, last.fn)

(***************************************************************************)
(* C7 as amended. Every key of the overrides parseFilter returns is the    *)
(* text before the first '=' of a term of the filter, as written: it has   *)
(* no ',' and no '=', and it may have a '/' or a '.', and then no caller   *)
(* matches it. A module is looked up by exact match only, never by prefix  *)
(* or wildcard.                                                            *)
(***************************************************************************)
C7_KeysAreTermPrefixes ==
    /\ last.op \in {"parseFilter", "getLevelForRecord"} =>
           LET terms == TermsOf(last.filter)
           IN  /\ DOMAIN last.ret.perPackageLevel =
                      {TermModule(terms[i]) :
                          i \in {j \in 1..Len(terms) : ~IsBare(terms[j])}}
               /\ \A k \in DOMAIN last.ret.perPackageLevel :
                      \A i \in 1..Len(k) : k[i] \notin {",", "="}
    /\ last.op = "getLevelForRecord" =>
           /\ last.level = EffectiveLevel(last.ret, last.fn)
           /\ \A k \in DOMAIN last.ret.perPackageLevel :
                  (\E i \in 1..Len(k) : k[i] \in {"/", "."}) =>
                      ~(HasModule(last.fn) /\ ModuleOf(last.fn) = k)

\* a caller of testpackage2 is held against the default level although
\* testpackage has an override, beside a key with '/' and '.'
C7_Witness ==
    /\ last.op = "getLevelForRecord"
    /\ last.fn = FnLonger
    /\ DOMAIN last.ret.perPackageLevel = {ModTestpackage, ModSlashDot}
    /\ last.ret.perPackageLevel[ModTestpackage] # last.ret.defaultLevel
    /\ last.level = last.ret.defaultLevel

(***************************************************************************)
(* C8. A term whose level text does not decode is ignored and what was     *)
(* there is kept: a bare term that does not decode leaves the default      *)
(* level as it was before the term (the empty filter, one empty term,      *)
(* gives the given default level and no overrides), and a term of m that   *)
(* does not decode leaves an override that m already has as it was.        *)
(* parseFilter returns the two values and no error.                        *)
(***************************************************************************)
C8_UndecodableTermsAreIgnored ==
    last.op = "parseFilter" =>
        LET terms == TermsOf(last.filter)
        IN  /\ DOMAIN last.ret = {"defaultLevel", "perPackageLevel"}
            /\ \A i \in 1..Len(terms) :
                   (IsBare(terms[i]) /\ ~Decodes(terms[i])) =>
                       last.ret = ParsedWithout(last.defaultLevel, terms, i)
            /\ last.filter = <<>> =>
                   /\ last.ret.defaultLevel = last.defaultLevel
                   /\ last.ret.perPackageLevel = EmptyMap
            /\ \A i \in 1..Len(terms) :
                   (/\ ~IsBare(terms[i])
                    /\ ~Decodes(terms[i])
                    /\ \E j \in 1..(i - 1) :
                           ~IsBare(terms[j]) /\ TermModule(terms[j]) = TermModule(terms[i]))
                   => last.ret = ParsedWithout(last.defaultLevel, terms, i)

\* "mypackage=debug,mypackage=trace" leaves mypackage at debug
C8_Witness ==
    /\ last.op = "parseFilter"
    /\ last.filter = JoinTerms(<<ModuleTerm(ModMypackage, StrDebug),
                                 ModuleTerm(ModMypackage, StrTrace)>>)
    /\ last.ret.perPackageLevel[ModMypackage] = LevelDebug

(***************************************************************************)
(* What the property of NewHandler is stated with.                         *)
(***************************************************************************)
\* the options of one kind among opts, in order
OptsOfKind(opts, kind) == SelectSeq(opts, LAMBDA o : o.opt = kind)

\* the last option of one kind among opts
LastOfKind(opts, kind) ==
    OptsOfKind(opts, kind)[Len(OptsOfKind(opts, kind))]

(***************************************************************************)
(* C3. NewHandler takes its filter text from the configured environment    *)
(* variable (GO_LOG unless WithEnvVarName names another) when the variable *)
(* is set; when it is unset, from WithDefaultFilter; and when there is     *)
(* none either, the default level is that of WithDefaultLevel (Info when   *)
(* not given) and there are no overrides. Of an option given twice, the    *)
(* later one counts.                                                       *)
(***************************************************************************)
C3_FilterFallbackChain ==
    last.op = "NewHandler" =>
        LET opts    == last.opts
            name    == IF OptsOfKind(opts, "WithEnvVarName") = <<>> THEN "GO_LOG"
                       ELSE LastOfKind(opts, "WithEnvVarName").name
            level   == IF OptsOfKind(opts, "WithDefaultLevel") = <<>> THEN LevelInfo
                       ELSE LastOfKind(opts, "WithDefaultLevel").level
            given   == OptsOfKind(opts, "WithDefaultFilter") # <<>>
            wanted  == IF env[name].set
                       THEN parseFilter(level, env[name].val)
                       ELSE IF given
                       THEN parseFilter(level,
                                        LastOfKind(opts, "WithDefaultFilter").filter)
                       ELSE [defaultLevel |-> level, perPackageLevel |-> EmptyMap]
        IN  /\ handlers[last.new].inner = RootSink
            /\ handlers[last.new].defaultLevel = wanted.defaultLevel
            /\ handlers[last.new].perPackageLevel = wanted.perPackageLevel


====
